---- MODULE Spec2Model ----
(***************************************************************************)
(* Model of the 2048 board engine of src/src/lib.rs: the 4x4 board of      *)
(* Option<NonZeroU8> tiles, its two constructors (Board::new, Board::from) *)
(* and the operations play, merge, squash, gen_num, is_lost, is_mergable.  *)
(* A tile is modelled by its exponent, None by 0.                          *)
(***************************************************************************)
EXTENDS Integers, Sequences, FiniteSets

VARIABLES board, prev, mid, op, dir, ret, calls

vars == <<board, prev, mid, op, dir, ret, calls>>

\* ---------------------------------------------------------------- data --

\* side of the grid: [[Option<NonZeroU8>; 4]; 4]
N == 4

\* Option::None
None == 0

\* NonZeroU8::MAX
MaxExp == 255

\* largest of the small exponents the input grids are drawn from
MaxSmallExp == 2

\* number of calls of play in a game
MaxMoves == 1

\* number of calls of play after the one that returned true
MaxReplays == 2

Idx == 0 .. (N - 1)

Cells == Idx \X Idx

\* enum Arrow
Arrow == {"Up", "Down", "Left", "Right"}

\* the tile values the input grids are drawn from
Tile == {None} \cup (1 .. MaxSmallExp) \cup {MaxExp}

\* NonZeroU8::checked_add(1): None on overflow
checked_add(v) == IF v + 1 > MaxExp THEN None ELSE v + 1

\* self.board[x][y] = v
Put(b, p, v) == [b EXCEPT ![p[1]][p[2]] = v]

\* [[Option<NonZeroU8>; 4]; 4]
Board == [Idx -> [Idx -> 0 .. MaxExp]]

\* [[None; 4]; 4]
EmptyBoard == [x \in Idx |-> [y \in Idx |-> None]]

\* ------------------------------------------------------------ predicates --

is_full(b) == \A x \in Idx : \A y \in Idx : b[x][y] # None

mergable_row(b) ==
    \E x \in 0 .. 3 : \E y \in 0 .. 2 :
        LET left == b[x][y]
            right == b[x][y + 1]
        IN  left # None /\ left = right

\* mergable_col with the last pair of rows left out
mergable_col_short(b) ==
    \E x \in 0 .. 1 : \E y \in 0 .. 3 :
        LET above == b[x][y]
            below == b[x + 1][y]
        IN  above # None /\ above = below

mergable_col(b) ==
    \E x \in 0 .. 2 : \E y \in 0 .. 3 :
        LET above == b[x][y]
            below == b[x + 1][y]
        IN  above # None /\ above = below

\* is_mergable looking at the rows only
is_mergable_rows_only(b) == mergable_row(b)

is_mergable(b) == mergable_row(b) \/ mergable_col(b)

\* is_lost without the test of is_mergable
is_lost_when_full(b) == is_full(b)

is_lost(b) == is_full(b) /\ ~is_mergable(b)

\* ------------------------------------------------------------------ scan --

\* the (x, y) of the pairs in the order scan visits them, per direction
ScanOrder ==
    [direction \in Arrow |->
        CASE direction = "Up" ->
                [i \in 1 .. 12 |-> <<2 - ((i - 1) \div 4), (i - 1) % 4>>]
          [] direction = "Down" ->
                [i \in 1 .. 12 |-> <<(i - 1) \div 4, (i - 1) % 4>>]
          [] direction = "Left" ->
                [i \in 1 .. 12 |-> <<(i - 1) \div 3, 2 - ((i - 1) % 3)>>]
          [] direction = "Right" ->
                [i \in 1 .. 12 |-> <<(i - 1) \div 3, 2 - ((i - 1) % 3)>>]]

\* the second cell of the pair at (x, y): below for Up/Down, right for
\* Left/Right (split_at_mut(.. + 1), last_mut / first_mut)
Second(direction, p) ==
    IF direction \in {"Up", "Down"} THEN <<p[1] + 1, p[2]>>
                                    ELSE <<p[1], p[2] + 1>>

\* the merge closures without the assignment of None to the other cell
merge_op_keeps_both(direction, a, b) ==
    CASE direction = "Up" ->
            IF a # None /\ a = b THEN <<a, checked_add(a)>> ELSE <<a, b>>
      [] direction = "Down" ->
            IF a # None /\ a = b THEN <<checked_add(b), b>> ELSE <<a, b>>
      [] direction = "Left" ->
            IF b # None /\ a = b THEN <<a, checked_add(a)>> ELSE <<a, b>>
      [] direction = "Right" ->
            IF b # None /\ a = b THEN <<checked_add(b), b>> ELSE <<a, b>>

\* the closures merge hands to scan; a is above/left, b is below/right;
\* the result is the new <<a, b>>
merge_op(direction, a, b) ==
    CASE direction = "Up" ->
            IF a # None /\ a = b THEN <<None, checked_add(a)>> ELSE <<a, b>>
      [] direction = "Down" ->
            IF a # None /\ a = b THEN <<checked_add(b), None>> ELSE <<a, b>>
      [] direction = "Left" ->
            IF b # None /\ a = b THEN <<None, checked_add(a)>> ELSE <<a, b>>
      [] direction = "Right" ->
            IF b # None /\ a = b THEN <<checked_add(b), None>> ELSE <<a, b>>

\* the closures squash_once hands to scan
squash_op(direction, a, b) ==
    CASE direction = "Up" ->
            IF a = None /\ b # None THEN <<b, None>> ELSE <<a, b>>
      [] direction = "Down" ->
            IF b = None /\ a # None THEN <<None, a>> ELSE <<a, b>>
      [] direction = "Left" ->
            IF a = None /\ b # None THEN <<b, None>> ELSE <<a, b>>
      [] direction = "Right" ->
            IF b = None /\ a # None THEN <<None, a>> ELSE <<a, b>>

\* one call of op on the pair at p
ApplyOp(b, direction, kind, p) ==
    LET q == Second(direction, p)
        r == IF kind = "merge"
                THEN merge_op(direction, b[p[1]][p[2]], b[q[1]][q[2]])
                ELSE squash_op(direction, b[p[1]][p[2]], b[q[1]][q[2]])
    IN  Put(Put(b, p, r[1]), q, r[2])

\* scan: op is applied to the pairs one after the other, in ScanOrder
scan(b, direction, kind) ==
    LET from[bb \in Board, i \in 1 .. 13] ==
            IF i > 12
                THEN bb
                ELSE from[ApplyOp(bb, direction, kind, ScanOrder[direction][i]),
                          i + 1]
    IN  from[b, 1]

squash_once(b, direction) == scan(b, direction, "squash")

\* squash with one pass instead of three
squash_single_pass(b, direction) == squash_once(b, direction)

\* squash with two passes instead of three
squash_two_passes(b, direction) ==
    squash_once(squash_once(b, direction), direction)

squash(b, direction) ==
    squash_once(squash_once(squash_once(b, direction), direction), direction)

\* merge whose last squash goes up whatever the direction
merge_last_squash_up(b, direction) ==
    squash(scan(squash(b, direction), direction, "merge"), "Up")

merge(b, direction) ==
    squash(scan(squash(b, direction), direction, "merge"), direction)

\* --------------------------------------------------------------- gen_num --

\* the candidate cells without the is_none filter
EmptyCells_unfiltered(b) == Cells

\* the cells the filter of gen_num keeps
EmptyCells(b) == {p \in Cells : b[p[1]][p[2]] = None}

\* gen_num answering true on a full board
gen_num_full_true(b) ==
    IF is_full(b)
        THEN {[board |-> b, ret |-> TRUE]}
        ELSE {[board |-> Put(b, p, v), ret |-> TRUE] :
                 p \in EmptyCells(b), v \in {1, 2}}

\* every outcome of gen_num on b: the board it leaves and what it returns
gen_num(b) ==
    IF is_full(b)
        THEN {[board |-> b, ret |-> FALSE]}
        ELSE {[board |-> Put(b, p, v), ret |-> TRUE] :
                 p \in EmptyCells(b), v \in {1, 2}}

\* -------------------------------------------------------------- fixtures --

\* tests::test_is_lost, lost_boards[0]
Checker == [x \in Idx |-> [y \in Idx |-> IF (x + y) % 2 = 0 THEN 1 ELSE 2]]

\* tests::test_merge_squash, pairs[0].0
SquashFixture ==
    [x \in Idx |-> [y \in Idx |->
        CASE <<x, y>> = <<0, 3>> -> 1
          [] <<x, y>> = <<2, 2>> -> 3
          [] <<x, y>> = <<3, 2>> -> 3
          [] <<x, y>> = <<3, 3>> -> 1
          [] OTHER -> None]]

Backgrounds == {EmptyBoard, Checker, SquashFixture}

\* b with row k (rows = TRUE) or column k replaced by lane
WithLane(b, rows, k, lane) ==
    [x \in Idx |-> [y \in Idx |->
        IF rows THEN (IF x = k THEN lane[y] ELSE b[x][y])
                ELSE (IF y = k THEN lane[x] ELSE b[x][y])]]

\* the grids handed to Board::from: a fixture of the tests with one of its
\* rows or columns replaced by any lane of tiles
Grids ==
    {WithLane(bg, rows, k, lane) :
        bg \in Backgrounds, rows \in BOOLEAN, k \in Idx, lane \in [Idx -> Tile]}

\* the grids of Grids that are full up to one lane
DenseGrids ==
    {WithLane(Checker, rows, k, lane) :
        rows \in BOOLEAN, k \in Idx, lane \in [Idx -> Tile]}

\* ------------------------------------------------------------------ Init --

\* Board::new drawing the two positions with replacement
new_with_repeats ==
    {Put(Put(EmptyBoard, pq[1], 1), pq[2], 1) : pq \in Cells \X Cells}

\* Board::new: every outcome of choose_multiple(rng, 2), both cells set to 1
new ==
    {Put(Put(EmptyBoard, pq[1], 1), pq[2], 1) :
        pq \in {c \in Cells \X Cells : c[1] # c[2]}}

\* Board::from(value)
from(value) == value

Constructed(grids) ==
    /\ \/ board \in new /\ op = "new"
       \/ \E value \in grids : board = from(value) /\ op = "from"
    /\ prev = board
    /\ mid = board
    /\ dir = "Up"
    /\ ret = FALSE
    /\ calls = 0

Init == Constructed(Grids)

InitSpawn == Constructed(DenseGrids)

\* --------------------------------------------------------------- actions --

\* play testing is_lost before the spawn
Play_lost_before_spawn(d) ==
    \E merged \in {merge(board, d)} :
        \E g \in gen_num(merged) :
            /\ board' = g.board
            /\ mid' = merged
            /\ ret' = is_lost(merged)
            /\ prev' = board
            /\ dir' = d
            /\ op' = "play"
            /\ calls' = calls + 1

\* play without the call of gen_num
Play_without_spawn(d) ==
    \E merged \in {merge(board, d)} :
        /\ board' = merged
        /\ mid' = merged
        /\ ret' = is_lost(merged)
        /\ prev' = board
        /\ dir' = d
        /\ op' = "play"
        /\ calls' = calls + 1

Play(d) ==
    \E merged \in {merge(board, d)} :
        \E g \in gen_num(merged) :
            /\ board' = g.board
            /\ mid' = merged
            /\ ret' = is_lost(g.board)
            /\ prev' = board
            /\ dir' = d
            /\ op' = "play"
            /\ calls' = calls + 1

Merge(d) ==
    /\ board' = merge(board, d)
    /\ mid' = board'
    /\ prev' = board
    /\ dir' = d
    /\ op' = "merge"
    /\ calls' = calls + 1
    /\ UNCHANGED ret

GenNum ==
    \E g \in gen_num(board) :
        /\ board' = g.board
        /\ ret' = g.ret
        /\ mid' = board'
        /\ prev' = board
        /\ op' = "gen_num"
        /\ calls' = calls + 1
        /\ UNCHANGED dir

Squash(d) ==
    /\ board' = squash(board, d)
    /\ mid' = board'
    /\ prev' = board
    /\ dir' = d
    /\ op' = "squash"
    /\ calls' = calls + 1
    /\ UNCHANGED ret

IsLost ==
    /\ ret' = is_lost(board)
    /\ prev' = board
    /\ mid' = board
    /\ op' = "is_lost"
    /\ calls' = calls + 1
    /\ UNCHANGED <<board, dir>>

IsMergable ==
    /\ ret' = is_mergable(board)
    /\ prev' = board
    /\ mid' = board
    /\ op' = "is_mergable"
    /\ calls' = calls + 1
    /\ UNCHANGED <<board, dir>>

\* one call of merge or of a predicate on a freshly constructed board
Next ==
    /\ op \in {"new", "from"}
    /\ \/ \E d \in Arrow : Merge(d)
       \/ IsLost
       \/ IsMergable

Spec == Init /\ [][Next]_vars

\* one call of play or of gen_num on a freshly constructed board
NextSpawn ==
    /\ op \in {"new", "from"}
    /\ \/ \E d \in Arrow : Play(d)
       \/ GenNum

SpecSpawn == InitSpawn /\ [][NextSpawn]_vars

\* one call of squash on a freshly constructed board
NextSquash ==
    /\ op \in {"new", "from"}
    /\ \E d \in Arrow : Squash(d)

SpecSquash == Init /\ [][NextSquash]_vars

\* a game: Board::new, then up to MaxMoves calls of play
InitGame ==
    /\ Constructed({})
    /\ op = "new"

NextGame ==
    /\ calls < MaxMoves
    /\ \E d \in Arrow : Play(d)

SpecGame == InitGame /\ [][NextGame]_vars

\* a caller that goes on playing after play has returned true
NextLost ==
    /\ \/ op \in {"new", "from"}
       \/ op = "play" /\ ret = TRUE /\ calls <= MaxReplays
    /\ \E d \in Arrow : Play(d)

SpecLost == InitSpawn /\ [][NextLost]_vars

\* ---------------------------------------------------------- vocabulary --

\* lane k of direction d, read from the cell at the target edge inwards:
\* a column for Up/Down, a row for Left/Right
LaneFromEdge(b, d, k) ==
    CASE d = "Up"    -> <<b[0][k], b[1][k], b[2][k], b[3][k]>>
      [] d = "Down"  -> <<b[3][k], b[2][k], b[1][k], b[0][k]>>
      [] d = "Left"  -> <<b[k][0], b[k][1], b[k][2], b[k][3]>>
      [] d = "Right" -> <<b[k][3], b[k][2], b[k][1], b[k][0]>>

IsTile(v) == v # None

\* the tiles of a lane, in order, without the empty cells
Tiles(lane) == SelectSeq(lane, IsTile)

Occupied(b) == {p \in Cells : b[p[1]][p[2]] # None}

\* the ordered pairs of horizontally or vertically adjacent cells
AdjacentPairs ==
    {pq \in Cells \X Cells :
        LET dx == pq[1][1] - pq[2][1]
            dy == pq[1][2] - pq[2][2]
        IN  dx * dx + dy * dy = 1}

HasEqualNeighbours(b) ==
    \E pq \in AdjacentPairs :
        /\ b[pq[1][1]][pq[1][2]] # None
        /\ b[pq[1][1]][pq[1][2]] = b[pq[2][1]][pq[2][2]]

\* after differs from before in exactly one cell, which was empty and now
\* holds a tile of exponent 1 or 2
SpawnedOne(before, after) ==
    \E p \in Cells :
        /\ before[p[1]][p[2]] = None
        /\ after[p[1]][p[2]] \in {1, 2}
        /\ \A q \in Cells \ {p} : after[q[1]][q[2]] = before[q[1]][q[2]]

\* what a lane of tiles (read from the edge) may become when every tile takes
\* part in at most one merge: it is cut into blocks of one tile, kept as it
\* is, and of two equal tiles, replaced by one tile of the next exponent
RECURSIVE Blocks(_)
Blocks(t) ==
    IF Len(t) = 0 THEN {<<>>}
    ELSE {<<t[1]>> \o r : r \in Blocks(Tail(t))}
         \cup (IF Len(t) >= 2 /\ t[1] = t[2]
                  THEN {<<t[1] + 1>> \o r : r \in Blocks(Tail(Tail(t)))}
                  ELSE {})

\* no tile of the lane holds the maximum exponent
BelowMax(t) == \A i \in 1 .. Len(t) : t[i] < MaxExp

\* ---------------------------------------------------------------- claims --

\* C1: after merge(direction), a lane that held three tiles of the same
\* exponent e and one empty cell holds the tile e+1 in the cell at the target
\* edge and the tile e next to it (stated for e below the maximum, where e+1
\* is a tile).
C1_ThreeEqualMergeNearestEdge ==
    op = "merge" =>
        \A k \in Idx :
            LET t == Tiles(LaneFromEdge(prev, dir, k))
            IN  (Len(t) = 3 /\ t[1] = t[2] /\ t[2] = t[3] /\ t[1] < MaxExp)
                    => LaneFromEdge(board, dir, k) = <<t[1] + 1, t[1], None, None>>

\* C2: during one merge(direction) no tile takes part in two merges: the
\* tiles of every lane after the move are the tiles before it, cut into
\* blocks of one tile or two equal tiles (stated for lanes without a tile of
\* the maximum exponent).
C2_MergeNeverCascades ==
    op = "merge" =>
        \A k \in Idx :
            LET t == Tiles(LaneFromEdge(prev, dir, k))
            IN  BelowMax(t) => Tiles(LaneFromEdge(board, dir, k)) \in Blocks(t)

\* C3: play(direction) is merge, then gen_num, then is_lost: the board is the
\* merged board with one tile spawned whenever the merged board had an empty
\* cell (also when merge changed nothing) and the merged board otherwise, and
\* play returns true iff the board after the spawn is full and has no two
\* adjacent equal tiles.
C3_PlayMergesSpawnsThenChecks ==
    op = "play" =>
        /\ mid = merge(prev, dir)
        /\ (Occupied(mid) # Cells => SpawnedOne(mid, board))
        /\ (Occupied(mid) = Cells => board = mid)
        /\ ret = (Occupied(board) = Cells /\ ~HasEqualNeighbours(board))

\* a play whose merge changed nothing, that spawned a tile all the same and
\* returned true
C3_Witness ==
    /\ op = "play"
    /\ mid = prev
    /\ board # mid
    /\ ret = TRUE

\* C4: after merge(direction), a lane that held four tiles of the same
\* exponent e below the maximum holds two tiles e+1 in the two cells nearest
\* the target edge and two empty cells.
C4_FourEqualMergeInPairs ==
    op = "merge" =>
        \A k \in Idx :
            LET t == Tiles(LaneFromEdge(prev, dir, k))
            IN  (Len(t) = 4 /\ t[1] = t[2] /\ t[2] = t[3] /\ t[3] = t[4]
                    /\ t[1] < MaxExp)
                    => LaneFromEdge(board, dir, k)
                           = <<t[1] + 1, t[1] + 1, None, None>>

\* a merge towards the right of a board with a row of four equal tiles
C4_Witness ==
    /\ op = "merge"
    /\ dir = "Right"
    /\ \E k \in Idx : LaneFromEdge(prev, dir, k) = <<2, 2, 2, 2>>

\* C5: after merge(direction), every lane that held exactly two tiles, of
\* equal exponent e, at any two positions, holds one tile e+1 in the cell at
\* the target edge and is empty elsewhere.
C5_PairMergesToEdge ==
    op = "merge" =>
        \A k \in Idx :
            LET t == Tiles(LaneFromEdge(prev, dir, k))
            IN  (Len(t) = 2 /\ t[1] = t[2])
                    => LaneFromEdge(board, dir, k) = <<t[1] + 1, None, None, None>>

\* C5 for the exponents below the maximum
C5_PairMergesToEdgeBelowMax ==
    op = "merge" =>
        \A k \in Idx :
            LET t == Tiles(LaneFromEdge(prev, dir, k))
            IN  (Len(t) = 2 /\ t[1] = t[2] /\ t[1] < MaxExp)
                    => LaneFromEdge(board, dir, k) = <<t[1] + 1, None, None, None>>

\* C6: merging two tiles of the maximum exponent leaves a tile of the maximum
\* exponent in their lane.
C6_MergeSaturatesAtMax ==
    op = "merge" =>
        \A k \in Idx :
            Tiles(LaneFromEdge(prev, dir, k)) = <<MaxExp, MaxExp>>
                => \E i \in 1 .. N : LaneFromEdge(board, dir, k)[i] = MaxExp

\* C7: gen_num on a board with an empty cell returns true and changes exactly
\* one cell, from empty to a tile of exponent 1 or 2.
C7_GenNumFillsOneEmptyCell ==
    (op = "gen_num" /\ Occupied(prev) # Cells) =>
        /\ ret = TRUE
        /\ SpawnedOne(prev, board)

\* a gen_num that put a tile of exponent 2 on a board that had tiles already
C7_Witness ==
    /\ op = "gen_num"
    /\ Occupied(prev) # {}
    /\ \E p \in Cells : prev[p[1]][p[2]] = None /\ board[p[1]][p[2]] = 2

\* C8: gen_num on a full board returns false and leaves the board unchanged.
C8_GenNumOnFullBoard ==
    (op = "gen_num" /\ Occupied(prev) = Cells) =>
        /\ ret = FALSE
        /\ board = prev

\* a gen_num called on a full board
C8_Witness ==
    /\ op = "gen_num"
    /\ Cardinality(Occupied(prev)) = N * N

\* C9: is_mergable is true iff one of the 24 adjacent pairs of cells holds two
\* equal tiles, is_lost is true iff the board is full and not mergeable, and
\* neither changes the board.
C9_MergableAndLost ==
    /\ Cardinality(AdjacentPairs) = 2 * 24
    /\ op = "is_mergable" =>
           /\ ret = HasEqualNeighbours(prev)
           /\ board = prev
    /\ op = "is_lost" =>
           /\ ret = (Occupied(prev) = Cells /\ ~HasEqualNeighbours(prev))
           /\ (Occupied(prev) # Cells => ret = FALSE)
           /\ board = prev

\* is_lost answered true
C9_Witness ==
    /\ op = "is_lost"
    /\ ret = TRUE

\* C10: Board::new returns a board with exactly two occupied cells, both of
\* exponent 1.
C10_NewHasTwoOnes ==
    op = "new" =>
        /\ Cardinality(Occupied(board)) = 2
        /\ \A p \in Occupied(board) : board[p[1]][p[2]] = 1

\* a board as Board::new returned it
C10_Witness ==
    /\ op = "new"
    /\ Occupied(board) # {}

\* ------------------------------------------------- vocabulary, continued --

\* the tiles t followed by empty cells up to the length of a lane
Padded(t) == t \o [i \in 1 .. (N - Len(t)) |-> None]

\* the columns of the pairs of row x, in the order scan visits them
RowVisits(direction, x) ==
    LET InRow(p) == p[1] = x
        pairs == SelectSeq(ScanOrder[direction], InRow)
    IN  [i \in 1 .. Len(pairs) |-> pairs[i][2]]

\* b with every lane of direction d but lane k emptied
OnlyLane(b, d, k) ==
    [x \in Idx |-> [y \in Idx |->
        IF (d \in {"Up", "Down"} /\ y = k) \/ (d \in {"Left", "Right"} /\ x = k)
            THEN b[x][y]
            ELSE None]]

MirrorH(b) == [x \in Idx |-> [y \in Idx |-> b[x][N - 1 - y]]]

MirrorV(b) == [x \in Idx |-> [y \in Idx |-> b[N - 1 - x][y]]]

Transpose(b) == [x \in Idx |-> [y \in Idx |-> b[y][x]]]

\* the displayed value of a cell: 2^exponent, nothing for an empty cell
Shown(v) == IF v = None THEN 0 ELSE 2 ^ v

RowValue(r) == Shown(r[0]) + Shown(r[1]) + Shown(r[2]) + Shown(r[3])

\* the total displayed value of a board
Value(b) == RowValue(b[0]) + RowValue(b[1]) + RowValue(b[2]) + RowValue(b[3])

NoMaxTile(b) == \A p \in Cells : b[p[1]][p[2]] # MaxExp

\* full and without two adjacent equal tiles
Stuck(b) == Occupied(b) = Cells /\ ~HasEqualNeighbours(b)

\* ------------------------------------------------------ claims, continued --

\* C11: squash(direction) leaves every lane compacted: its tiles, in the same
\* order and with the same exponents, in the cells starting at the target
\* edge, and the other cells empty.
C11_SquashCompactsEveryLane ==
    op = "squash" =>
        \A k \in Idx :
            LaneFromEdge(board, dir, k)
                = Padded(Tiles(LaneFromEdge(prev, dir, k)))

\* a squash towards the right that moved a tile from the first column to the
\* last, the move that needs all three passes
C11_Witness ==
    /\ op = "squash"
    /\ dir = "Right"
    /\ \E k \in Idx :
          /\ LaneFromEdge(prev, dir, k) = <<None, None, None, 1>>
          /\ LaneFromEdge(board, dir, k) = <<1, None, None, None>>

\* C12: squash(direction) applied to the board squash(direction) left gives
\* that same board.
C12_SquashIdempotent ==
    op = "squash" => squash(board, dir) = board

\* a squash that changed the board
C12_Witness ==
    /\ op = "squash"
    /\ board # prev

\* C13: in a Right move the pairs of each row are examined in ascending
\* column order, (0,1) then (1,2) then (2,3).
C13_RightScansAscending ==
    (op \in {"merge", "squash"} /\ dir = "Right") =>
        \A x \in Idx : RowVisits(dir, x) = <<0, 1, 2>>

\* C14: merge(direction) acts on each lane by itself: a lane ends as it would
\* on a board that holds nothing but that lane, and a lane that was empty
\* stays empty.
C14_MergeLaneIndependent ==
    op = "merge" =>
        \A k \in Idx :
            /\ LaneFromEdge(board, dir, k)
                   = LaneFromEdge(merge(OnlyLane(prev, dir, k), dir), dir, k)
            /\ Tiles(LaneFromEdge(prev, dir, k)) = <<>>
                   => Tiles(LaneFromEdge(board, dir, k)) = <<>>

\* a merge that changed a board with tiles in two lanes at least and with an
\* empty lane
C14_Witness ==
    /\ op = "merge"
    /\ board # prev
    /\ \E j \in Idx : \E k \in Idx \ {j} : \E e \in Idx \ {j, k} :
          /\ Tiles(LaneFromEdge(prev, dir, j)) # <<>>
          /\ Tiles(LaneFromEdge(prev, dir, k)) # <<>>
          /\ Tiles(LaneFromEdge(prev, dir, e)) = <<>>

C15_PlayKeepsTwoTiles ==
    (op = "play" /\ NoMaxTile(prev) /\ Cardinality(Occupied(prev)) >= 2)
        => Cardinality(Occupied(board)) >= 2

C16_LostIsAbsorbing ==
    [][(op = "play" /\ ret = TRUE /\ op' = "play")
          => (board' = board /\ ret' = TRUE)]_vars

\* a second call of play after the one that returned true
C16_Witness ==
    /\ op = "play"
    /\ calls = 2
    /\ Stuck(prev)
    /\ ret = TRUE

\* C17: is_lost is false iff play changes the board in one direction at
\* least; a play that changed the board was called on a board that was not
\* lost.
C17_NotLostIffSomeMoveChanges ==
    /\ op \in {"new", "from"} =>
           (~is_lost(board)
               <=> ENABLED (\E d \in Arrow : Play(d) /\ board' # board))
    /\ (op = "play" /\ board # prev) => ~is_lost(prev)

\* a play that changed a full board
C17_Witness ==
    /\ op = "play"
    /\ Occupied(prev) = Cells
    /\ board # prev

\* C18: merge(Right) on the horizontally mirrored board is the horizontal
\* mirror of merge(Left), merge(Down) on the vertically mirrored board is the
\* vertical mirror of merge(Up), and merge(Up) on the transposed board is the
\* transpose of merge(Left).
C18_DirectionsAreMirrorImages ==
    /\ (op = "merge" /\ dir = "Left") =>
           merge(MirrorH(prev), "Right") = MirrorH(board)
    /\ (op = "merge" /\ dir = "Up") =>
           merge(MirrorV(prev), "Down") = MirrorV(board)
    /\ (op = "merge" /\ dir = "Left") =>
           merge(Transpose(prev), "Up") = Transpose(board)

\* C18 without Right: Up and Down are mirror images, Up and Left transposes
C18_UpDownLeftAreMirrorImages ==
    /\ (op = "merge" /\ dir = "Up") =>
           merge(MirrorV(prev), "Down") = MirrorV(board)
    /\ (op = "merge" /\ dir = "Left") =>
           merge(Transpose(prev), "Up") = Transpose(board)

\* C19: on a board without a tile of the maximum exponent the merge of play
\* keeps the total displayed value, and play adds 2 or 4 to it when a tile is
\* spawned and nothing when the board is full after the merge.
C19_ValueConserved ==
    (op = "play" /\ NoMaxTile(prev)) =>
        /\ Value(mid) = Value(prev)
        /\ Occupied(mid) # Cells => Value(board) - Value(mid) \in {2, 4}
        /\ Occupied(mid) = Cells => Value(board) = Value(mid)

\* a play that merged tiles and spawned a tile
C19_Witness ==
    /\ op = "play"
    /\ NoMaxTile(prev)
    /\ Cardinality(Occupied(mid)) < Cardinality(Occupied(prev))
    /\ board # mid

====
